---- MODULE Spec2Model ----
(***************************************************************************)
(* Model of ptext/io/read/tokenize/low_level_tokenizer.py: the low-level   *)
(* PDF tokenizer (LowLevelTokenizer) over a seekable byte source.          *)
(*                                                                         *)
(* A byte is its ordinal (0..255).  A Python str of length 0 or 1, as      *)
(* returned by _next_char(), is a sequence of length 0 or 1; a token text  *)
(* is a sequence of bytes.  The byte source is the sequence src and the    *)
(* position of io_source is pos (zero-based, so the next byte read is      *)
(* src[pos + 1]).                                                          *)
(***************************************************************************)
EXTENDS Integers, Sequences, FiniteSets, TLC

\* ---------------------------------------------------------------- bounds
\* Longest byte source explored.
MaxLen == 3

\* Bytes the sources are built from: one or two representatives of every
\* class the tokenizer tells apart: LF, space, '%', '(', ')', '/', '1', '<',
\* '>', '[', '\', ']', 'a'.
Alphabet == {10, 32, 37, 40, 41, 47, 49, 60, 62, 91, 92, 93, 97}

\* Bytes of the sources of the replay specification.
ReplayAlphabet == {10, 32, 37, 40, 41, 49, 62}

\* Longest byte source of the string specification, which needs room for
\* nested and escaped parentheses and a byte after the closing one.
MaxStrLen == 5

\* Bytes of the sources of the string specification: '(', ')', '\', 'a'.
StringAlphabet == {40, 41, 92, 97}

\* Bytes of the sources of the number specification: space, '+', '-', '.',
\* '5', 'a'.
NumberAlphabet == {32, 43, 45, 46, 53, 97}

\* ------------------------------------------------------- io module values
SEEK_SET == 0
SEEK_CUR == 1
SEEK_END == 2

\* ---------------------------------------------------------- byte classes
NumberChars_digits == 48..57

\* "-+.0123456789"
NumberChars == {45, 43, 46} \cup (48..57)

\* ch in "-+.0123456789": Python substring test, true of the empty string.
InNumberChars(ch) == ch = <<>> \/ ch[1] \in NumberChars

_is_whitespace(ch) == ch[1] \in {0, 9, 10, 12, 13, 32}

_is_delimiter(ch) == ch[1] \in {0, 9, 10, 12, 13, 32, 37, 40, 41, 47, 60, 62, 91, 93}

\* ------------------------------------------------------------ byte cursor
\* io_source.read(1).decode("latin-1") at position p: the byte and the new
\* position; at or past the end the empty string and the position unchanged.
_next_char_past_end(s, p) ==
    IF p < Len(s) THEN [ch |-> <<s[p + 1]>>, pos |-> p + 1]
                  ELSE [ch |-> <<>>, pos |-> p + 1]

_next_char(s, p) ==
    IF p < Len(s) THEN [ch |-> <<s[p + 1]>>, pos |-> p + 1]
                  ELSE [ch |-> <<>>, pos |-> p]

\* io_source.seek(-1, io.SEEK_CUR)
_prev_char(p) == p - 1

tell_ahead(p) == p + 1

\* LowLevelTokenizer.tell: io_source.tell() with io_source at position p.
tell(p) == p

\* ------------------------------------------------------------------ Token
Token(byte_offset, token_type, text) ==
    [status |-> "token", byte_offset |-> byte_offset,
     token_type |-> token_type, text |-> text]

\* return None
None == [status |-> "none", byte_offset |-> -1, token_type |-> "NONE", text |-> <<>>]

\* A failed assert: the call raises AssertionError and returns nothing.
\* token_type names the assert: "assert_133" is the malformed dictionary
\* close, "assert_203" and "assert_204" the unterminated string.
Raise(which) == [status |-> "fail", byte_offset |-> -1, token_type |-> which, text |-> <<>>]

\* What a call leaves behind: its result and the position of io_source.
Out(tok, p) == [tok |-> tok, pos |-> p]

PushBack_none(ch, p) == p

\* The pushback after a run: "if len(ch) != 0: self._prev_char()".
PushBack(ch, p) == IF Len(ch) # 0 THEN _prev_char(p) ELSE p

\* ------------------------------------------------------------- next_token
\* while len(ch) > 0 and self._is_whitespace(ch): ch = self._next_char()
RECURSIVE SkipWhitespace(_, _, _)
SkipWhitespace(s, p, ch) ==
    IF Len(ch) > 0 /\ _is_whitespace(ch)
    THEN LET r == _next_char(s, p) IN SkipWhitespace(s, r.pos, r.ch)
    ELSE [ch |-> ch, pos |-> p]

\* NAME: the loop of lines 117-123; ch is the byte that ended it.
RECURSIVE NameLoop(_, _, _)
NameLoop(s, p, out_str) ==
    LET r == _next_char(s, p) IN
    IF Len(r.ch) = 0 THEN [ch |-> r.ch, pos |-> r.pos, out_str |-> out_str]
    ELSE IF _is_delimiter(r.ch) THEN [ch |-> r.ch, pos |-> r.pos, out_str |-> out_str]
    ELSE NameLoop(s, r.pos, out_str \o r.ch)

ScanName(s, p) ==
    LET out_pos == tell(p) - 1
        l == NameLoop(s, p, <<47>>)
    IN Out(Token(out_pos, "NAME", l.out_str), PushBack(l.ch, l.pos))

ScanEndDict_restore(s, p) ==
    LET out_pos == tell(p) - 1
        r == _next_char(s, p)
    IN IF r.ch # <<62>> THEN Out(Raise("assert_133"), PushBack(r.ch, r.pos))
       ELSE Out(Token(out_pos, "END_DICT", <<62, 62>>), r.pos)

ScanEndDict_no_assert(s, p) ==
    LET out_pos == tell(p) - 1
        r == _next_char(s, p)
    IN Out(Token(out_pos, "END_DICT", <<62, 62>>), r.pos)

\* END_DICT: lines 129-134.
ScanEndDict(s, p) ==
    LET out_pos == tell(p) - 1
        r == _next_char(s, p)
    IN IF r.ch # <<62>> THEN Out(Raise("assert_133"), r.pos)
       ELSE Out(Token(out_pos, "END_DICT", <<62, 62>>), r.pos)

RECURSIVE CommentLoop_cr_only(_, _, _, _)
CommentLoop_cr_only(s, p, ch, out_str) ==
    IF Len(ch) # 0 /\ ch # <<13>>
    THEN LET r == _next_char(s, p) IN CommentLoop_cr_only(s, r.pos, r.ch, out_str \o ch)
    ELSE [ch |-> ch, pos |-> p, out_str |-> out_str]

\* COMMENT: the loop of lines 140-142.
RECURSIVE CommentLoop(_, _, _, _)
CommentLoop(s, p, ch, out_str) ==
    IF Len(ch) # 0 /\ ch # <<13>> /\ ch # <<10>>
    THEN LET r == _next_char(s, p) IN CommentLoop(s, r.pos, r.ch, out_str \o ch)
    ELSE [ch |-> ch, pos |-> p, out_str |-> out_str]

ScanComment(s, p, ch) ==
    LET out_pos == tell(p) - 1
        l == CommentLoop(s, p, ch, <<>>)
    IN Out(Token(out_pos, "COMMENT", l.out_str), PushBack(l.ch, l.pos))

RECURSIVE HexLoop_drop_close(_, _, _)
HexLoop_drop_close(s, p, out_str) ==
    LET r == _next_char(s, p) IN
    IF Len(r.ch) = 0 THEN [pos |-> r.pos, out_str |-> out_str]
    ELSE IF r.ch = <<62>> THEN [pos |-> r.pos, out_str |-> out_str]
    ELSE HexLoop_drop_close(s, r.pos, out_str \o r.ch)

\* HEX_STRING: the loop of lines 162-168.
RECURSIVE HexLoop(_, _, _)
HexLoop(s, p, out_str) ==
    LET r == _next_char(s, p) IN
    IF Len(r.ch) = 0 THEN [pos |-> r.pos, out_str |-> out_str]
    ELSE IF r.ch = <<62>> THEN [pos |-> r.pos, out_str |-> out_str \o r.ch]
    ELSE HexLoop(s, r.pos, out_str \o r.ch)

ScanHexOrDict_no_empty(s, p) ==
    LET out_pos == tell(p) - 1
        r == _next_char(s, p)
    IN IF r.ch = <<60>> THEN Out(Token(out_pos, "START_DICT", <<60, 60>>), r.pos)
       ELSE LET l == HexLoop(s, r.pos, <<60>> \o r.ch)
            IN Out(Token(out_pos, "HEX_STRING", l.out_str), l.pos)

ScanHexOrDict_hardened(s, p) ==
    LET out_pos == tell(p) - 1
        r == _next_char(s, p)
    IN IF r.ch = <<60>> THEN Out(Token(out_pos, "START_DICT", <<60, 60>>), r.pos)
       ELSE IF r.ch = <<62>> THEN Out(Token(out_pos, "HEX_STRING", <<60, 62>>), r.pos)
       ELSE LET l == HexLoop(s, r.pos, <<60>> \o r.ch)
            IN IF l.out_str[Len(l.out_str)] # 62 THEN Out(Raise("truncated_hex"), l.pos)
               ELSE Out(Token(out_pos, "HEX_STRING", l.out_str), l.pos)

\* HEX_STRING OR DICT: lines 148-170.
ScanHexOrDict(s, p) ==
    LET out_pos == tell(p) - 1
        r == _next_char(s, p)
    IN IF r.ch = <<60>> THEN Out(Token(out_pos, "START_DICT", <<60, 60>>), r.pos)
       ELSE IF r.ch = <<62>> THEN Out(Token(out_pos, "HEX_STRING", <<60, 62>>), r.pos)
       ELSE LET l == HexLoop(s, r.pos, <<60>> \o r.ch)
            IN Out(Token(out_pos, "HEX_STRING", l.out_str), l.pos)

\* NUMBER: the loop of lines 176-178.
RECURSIVE NumberLoop(_, _, _, _)
NumberLoop(s, p, ch, out_str) ==
    IF Len(ch) # 0 /\ InNumberChars(ch)
    THEN LET r == _next_char(s, p) IN NumberLoop(s, r.pos, r.ch, out_str \o ch)
    ELSE [ch |-> ch, pos |-> p, out_str |-> out_str]

ScanNumber(s, p, ch) ==
    LET out_pos == tell(p) - 1
        l == NumberLoop(s, p, ch, <<>>)
    IN Out(Token(out_pos, "NUMBER", l.out_str), PushBack(l.ch, l.pos))

RECURSIVE StringLoop_no_escape(_, _, _, _)
StringLoop_no_escape(s, p, bracket_nesting_level, out_str) ==
    LET r == _next_char(s, p) IN
    IF Len(r.ch) = 0 THEN [ch |-> r.ch, pos |-> r.pos, out_str |-> out_str]
    ELSE LET level == IF r.ch = <<40>> THEN bracket_nesting_level + 1
                      ELSE IF r.ch = <<41>> THEN bracket_nesting_level - 1
                      ELSE bracket_nesting_level
         IN IF level = 0
            THEN [ch |-> r.ch, pos |-> r.pos, out_str |-> out_str \o r.ch]
            ELSE StringLoop_no_escape(s, r.pos, level, out_str \o r.ch)

\* STRING: the loop of lines 188-202; ch is the last value of ch.
RECURSIVE StringLoop(_, _, _, _)
StringLoop(s, p, bracket_nesting_level, out_str) ==
    LET r == _next_char(s, p) IN
    IF Len(r.ch) = 0 THEN [ch |-> r.ch, pos |-> r.pos, out_str |-> out_str]
    ELSE IF r.ch = <<92>>
    THEN LET e == _next_char(s, r.pos)
         IN StringLoop(s, e.pos, bracket_nesting_level, out_str \o <<92>> \o e.ch)
    ELSE LET level == IF r.ch = <<40>> THEN bracket_nesting_level + 1
                      ELSE IF r.ch = <<41>> THEN bracket_nesting_level - 1
                      ELSE bracket_nesting_level
         IN IF level = 0
            THEN [ch |-> r.ch, pos |-> r.pos, out_str |-> out_str \o r.ch]
            ELSE StringLoop(s, r.pos, level, out_str \o r.ch)

ScanString_no_assert(s, p) ==
    LET out_pos == tell(p) - 1
        l == StringLoop(s, p, 1, <<40>>)
    IN Out(Token(out_pos, "STRING", l.out_str), l.pos)

\* STRING: lines 184-205.
ScanString(s, p) ==
    LET out_pos == tell(p) - 1
        l == StringLoop(s, p, 1, <<40>>)
    IN IF Len(l.ch) = 0 THEN Out(Raise("assert_203"), l.pos)
       ELSE IF l.out_str[Len(l.out_str)] = 92 THEN Out(Raise("assert_204"), l.pos)
       ELSE Out(Token(out_pos, "STRING", l.out_str), l.pos)

\* OTHER: the loop of lines 210-212.
RECURSIVE OtherLoop(_, _, _, _)
OtherLoop(s, p, ch, out_str) ==
    IF Len(ch) # 0 /\ ~_is_delimiter(ch)
    THEN LET r == _next_char(s, p) IN OtherLoop(s, r.pos, r.ch, out_str \o ch)
    ELSE [ch |-> ch, pos |-> p, out_str |-> out_str]

ScanOther(s, p, ch) ==
    LET out_pos == tell(p) - 1
        l == OtherLoop(s, p, ch, <<>>)
    IN Out(Token(out_pos, "OTHER", l.out_str), PushBack(l.ch, l.pos))

\* The dispatch of lines 105-215 on the byte ch read last, io_source at p.
Dispatch(s, p, ch) ==
    IF ch = <<91>> THEN Out(Token(tell(p) - 1, "START_ARRAY", <<91>>), p)
    ELSE IF ch = <<93>> THEN Out(Token(tell(p) - 1, "END_ARRAY", <<93>>), p)
    ELSE IF ch = <<47>> THEN ScanName(s, p)
    ELSE IF ch = <<62>> THEN ScanEndDict(s, p)
    ELSE IF ch = <<37>> THEN ScanComment(s, p, ch)
    ELSE IF ch = <<60>> THEN ScanHexOrDict(s, p)
    ELSE IF InNumberChars(ch) THEN ScanNumber(s, p, ch)
    ELSE IF ch = <<40>> THEN ScanString(s, p)
    ELSE ScanOther(s, p, ch)

\* LowLevelTokenizer.next_token with io_source at position p of source s.
next_token(s, p) ==
    LET r == _next_char(s, p) IN
    IF Len(r.ch) = 0 THEN Out(None, r.pos)
    ELSE LET w == SkipWhitespace(s, r.pos, r.ch)
         IN Dispatch(s, w.pos, w.ch)

next_non_comment_token_once(s, p) ==
    LET o == next_token(s, p) IN
    IF o.tok.status = "token" /\ o.tok.token_type = "COMMENT"
    THEN next_token(s, o.pos)
    ELSE o

\* LowLevelTokenizer.next_non_comment_token: the loop of lines 88-91.  A
\* failed next_token ends it, the AssertionError passing to the caller.
RECURSIVE next_non_comment_token(_, _)
next_non_comment_token(s, p) ==
    LET o == next_token(s, p) IN
    IF o.tok.status = "token" /\ o.tok.token_type = "COMMENT"
    THEN next_non_comment_token(s, o.pos)
    ELSE o

seek_from_current(s, p, offset, whence) ==
    IF whence = SEEK_END THEN Len(s) + offset ELSE p + offset

\* LowLevelTokenizer.seek at position p of source s: the new absolute
\* position io_source.seek(offset, whence) returns.
seek(s, p, offset, whence) ==
    IF whence = SEEK_SET THEN offset
    ELSE IF whence = SEEK_CUR THEN p + offset
    ELSE Len(s) + offset

\* ------------------------------------------------------------------ state
VARIABLES
    src,        \* the bytes of io_source
    pos,        \* the position of io_source
    op,         \* the last call made on the tokenizer
    start,      \* tell() when that call was made
    res,        \* what that call returned or raised
    run,        \* the tokens returned since the cursor was at offset 0, while
                \* only next_token has been called since
    after_eos,  \* the call before the last one returned None and no seek
                \* came between the two
    again,      \* the token whose byte_offset the caller has sought back to
    mark,       \* an offset tell() returned and the scan first made from it
    replay      \* the caller has sought back to mark.p

vars == <<src, pos, op, start, res, run, after_eos, again, mark, replay>>

\* No result: the tokenizer was constructed or the cursor moved by seek.
Idle == [status |-> "idle", byte_offset |-> -1, token_type |-> "NONE", text |-> <<>>]

NoMark == [p |-> -1, tok |-> Idle, pos |-> -1]

SourcesUpTo(bytes, n) == UNION {[1..k -> bytes] : k \in 0..n}

Sources(bytes) == SourcesUpTo(bytes, MaxLen)

\* LowLevelTokenizer.__init__ around one of the sources S, positioned at its
\* start.
InitWith(S) ==
    /\ src \in S
    /\ pos = 0
    /\ op = "init"
    /\ start = 0
    /\ res = Idle
    /\ run = [live |-> TRUE, toks |-> <<>>]
    /\ after_eos = FALSE
    /\ again = Idle
    /\ mark = NoMark
    /\ replay = FALSE

\* LowLevelTokenizer.__init__ around a source positioned at its start.
InitOver(bytes) == InitWith(Sources(bytes))

Init == InitOver(Alphabet)

InitReplay == InitOver(ReplayAlphabet)

\* The tokens of the scan from offset 0 after one more next_token call.
RunAfter(tok) ==
    IF run.live /\ tok.status = "token" /\ Len(run.toks) <= Len(src)
    THEN [live |-> TRUE, toks |-> Append(run.toks, tok)]
    ELSE IF run.live /\ tok.status = "none" THEN run
    ELSE [live |-> FALSE, toks |-> <<>>]

\* The caller calls next_token(); m is what it remembers of the call.
NextTokenCall(m) ==
    LET o == next_token(src, pos) IN
    /\ pos' = o.pos
    /\ res' = o.tok
    /\ op' = "next_token"
    /\ start' = tell(pos)
    /\ run' = RunAfter(o.tok)
    /\ after_eos' = (op \in {"next_token", "next_non_comment_token"} /\ res.status = "none")
    /\ again' = IF op = "seek" THEN again ELSE Idle
    /\ replay' = (op = "seek" /\ replay)
    /\ mark' = IF m THEN [p |-> tell(pos), tok |-> o.tok, pos |-> tell(o.pos)] ELSE mark
    /\ UNCHANGED src

NextTokenStep == NextTokenCall(FALSE)

\* The caller notes tell() and calls next_token() from there for the first
\* time.
MarkedNextTokenStep == mark = NoMark /\ NextTokenCall(TRUE)

NextNonCommentTokenStep ==
    LET o == next_non_comment_token(src, pos) IN
    /\ pos' = o.pos
    /\ res' = o.tok
    /\ op' = "next_non_comment_token"
    /\ start' = tell(pos)
    /\ run' = [live |-> FALSE, toks |-> <<>>]
    /\ after_eos' = (op \in {"next_token", "next_non_comment_token"} /\ res.status = "none")
    /\ again' = Idle
    /\ replay' = FALSE
    /\ UNCHANGED <<src, mark>>

\* The caller calls seek(offset, whence) with a target the source accepts:
\* not before the start, and at most one byte past the end.
SeekStep ==
    \E whence \in {SEEK_SET, SEEK_CUR, SEEK_END} :
    \E offset \in (0 - (MaxLen + 1))..(MaxLen + 1) :
        LET target == seek(src, pos, offset, whence) IN
        /\ whence = SEEK_SET => offset >= 0
        /\ target \in 0..(Len(src) + 1)
        /\ pos' = target
        /\ op' = "seek"
        /\ start' = target
        /\ res' = Idle
        /\ run' = [live |-> target = 0, toks |-> <<>>]
        /\ after_eos' = FALSE
        /\ again' = IF /\ whence = SEEK_SET
                       /\ op = "next_token"
                       /\ res.status = "token"
                       /\ offset = res.byte_offset
                    THEN res ELSE Idle
        /\ replay' = (whence = SEEK_SET /\ mark # NoMark /\ offset = mark.p)
        /\ UNCHANGED <<src, mark>>

Next == NextTokenStep \/ NextNonCommentTokenStep \/ SeekStep

Spec == Init /\ [][Next]_vars

NextReplay == NextTokenStep \/ MarkedNextTokenStep \/ NextNonCommentTokenStep \/ SeekStep

SpecReplay == InitReplay /\ [][NextReplay]_vars

InitString == InitWith(SourcesUpTo(StringAlphabet, MaxStrLen))

SpecString == InitString /\ [][Next]_vars

InitNumber == InitOver(NumberAlphabet)

SpecNumber == InitNumber /\ [][Next]_vars

\* ------------------------------------------------------------- properties
TypeOK ==
    /\ pos \in 0..(Len(src) + 1)
    /\ op \in {"init", "next_token", "next_non_comment_token", "seek"}
    /\ res.status \in {"idle", "none", "token", "fail"}

\* Helpers of the properties below.
WhitespaceBytes == {0, 9, 10, 12, 13, 32}

IsComment(tok) == tok.status = "token" /\ tok.token_type = "COMMENT"

\* The offset of the first byte at or after offset p that is not whitespace
\* (the lead byte of the lexeme a scan from p meets), or -1 if there is none.
LeadPos(s, p) ==
    LET cand == {i \in p..(Len(s) - 1) : s[i + 1] \notin WhitespaceBytes}
    IN IF cand = {} THEN -1 ELSE CHOOSE i \in cand : \A j \in cand : i <= j

\* The offset of the ')' that brings the nesting counter, depth at offset
\* i, back to 0, a backslash hiding the byte after it; -1 if the source ends
\* first.
RECURSIVE ClosingParen(_, _, _)
ClosingParen(s, i, depth) ==
    IF i >= Len(s) THEN -1
    ELSE IF s[i + 1] = 92 THEN ClosingParen(s, i + 2, depth)
    ELSE IF s[i + 1] = 40 THEN ClosingParen(s, i + 1, depth + 1)
    ELSE IF s[i + 1] = 41 THEN (IF depth = 1 THEN i ELSE ClosingParen(s, i + 1, depth - 1))
    ELSE ClosingParen(s, i + 1, depth)

\* C1: every token next_token() returns has a non-empty text.
C1_TokenTextNonEmpty ==
    (op = "next_token" /\ res.status = "token") => Len(res.text) > 0

\* C2: a next_token() call made where at least one byte remains and every
\* remaining byte is whitespace returns EndOfStream (None), not a token.
C2_WhitespaceTailGivesEndOfStream ==
    (/\ op = "next_token"
     /\ start < Len(src)
     /\ \A i \in (start + 1)..Len(src) : src[i] \in WhitespaceBytes)
    => res.status = "none"

\* C3: when the caller seeks to the byte_offset of the token t it was just
\* given and calls next_token() again, it is given a token with the same
\* byte_offset, kind and text as t.
C3_ReseekReproducesToken ==
    (op = "next_token" /\ again.status = "token") => res = again

\* C3 witness: a token that began after skipped whitespace has been scanned
\* a second time from its own byte_offset.
C3_Witness ==
    /\ op = "next_token"
    /\ again.status = "token"
    /\ again.byte_offset > 0
    /\ Len(again.text) > 1
    /\ res = again

\* C4: after a next_token() call that returned a token t, tell() is
\* t.byte_offset + len(t.text).
C4_TellIsEndOfToken ==
    (op = "next_token" /\ res.status = "token")
    => tell(pos) = res.byte_offset + Len(res.text)

\* C5: a next_token() call made right after seeking back to an offset p that
\* tell() returned earlier gives the same result (token, None or failure) and
\* leaves the same tell() as the first call made from p, whatever was called
\* in between.  As the tell() left behind is again such an offset, the
\* whole subsequent sequence is reproduced.
C5_ReplayFromToldOffset ==
    (op = "next_token" /\ replay) => (res = mark.tok /\ tell(pos) = mark.pos)

\* C5 witness: a scan that returned a token has been replayed after other
\* calls moved the cursor past the place the first scan left it.
C5_Witness ==
    /\ op = "next_token"
    /\ replay
    /\ mark.tok.status = "token"
    /\ Len(mark.tok.text) > 0
    /\ res = mark.tok
    /\ tell(pos) = mark.pos
    /\ mark.p > 0

\* C6: once next_token() has returned EndOfStream (None), a next_token()
\* call made with no seek in between returns EndOfStream too and leaves
\* tell() as it was; on the empty source every next_token() call, the first
\* included, returns EndOfStream.
C6_EndOfStreamIdempotent ==
    /\ (op = "next_token" /\ after_eos) => (res.status = "none" /\ tell(pos) = start)
    /\ (op = "next_token" /\ src = <<>>) => res.status = "none"

\* C6 witness: a second EndOfStream in a row on the empty source.
C6_Witness ==
    /\ op = "next_token"
    /\ after_eos
    /\ res.status = "none"
    /\ src = <<>>

\* The position of io_source after k next_token() calls in a row from p.
RECURSIVE PosAfterCalls(_, _, _)
PosAfterCalls(s, p, k) ==
    IF k = 0 THEN p ELSE next_token(s, PosAfterCalls(s, p, k - 1)).pos

\* C7: next_non_comment_token() never returns a Comment; what it returns
\* and where it leaves the cursor are the outcome of the k+1-th of a run of
\* next_token() calls from the same position, the first k having returned
\* Comment tokens and the k+1-th not.
C7_NextNonCommentToken ==
    op = "next_non_comment_token" =>
        /\ ~IsComment(res)
        /\ \E k \in 0..Len(src) :
              /\ \A j \in 0..(k - 1) :
                    IsComment(next_token(src, PosAfterCalls(src, start, j)).tok)
              /\ LET o == next_token(src, PosAfterCalls(src, start, k))
                 IN ~IsComment(o.tok) /\ res = o.tok /\ pos = o.pos

\* C7 witness: a call that began on a comment and returned the token after
\* it.
C7_Witness ==
    /\ op = "next_non_comment_token"
    /\ start < Len(src)
    /\ src[start + 1] = 37
    /\ res.status = "token"
    /\ res.byte_offset > start

\* ---- the lexical grammar of section 4.2, stated on offsets
DelimiterBytes == {0, 9, 10, 12, 13, 32, 37, 40, 41, 47, 60, 62, 91, 93}

\* The end of the longest run of bytes of S that starts at offset i.
RunEnd(s, i, S) ==
    CHOOSE j \in i..Len(s) :
        /\ \A k \in i..(j - 1) : s[k + 1] \in S
        /\ j = Len(s) \/ s[j + 1] \notin S

\* The offset just past the well-formed lexeme whose lead byte is at offset
\* i, or -1 if the bytes at i do not form one.
LexemeEnd(s, i) ==
    LET b == s[i + 1] IN
    IF b \in {91, 93} THEN i + 1
    ELSE IF b = 47 THEN RunEnd(s, i + 1, (0..255) \ DelimiterBytes)
    ELSE IF b = 62 THEN (IF i + 1 < Len(s) /\ s[i + 2] = 62 THEN i + 2 ELSE -1)
    ELSE IF b = 37 THEN RunEnd(s, i + 1, (0..255) \ {10, 13})
    ELSE IF b = 60 THEN
        IF i + 1 < Len(s) /\ s[i + 2] = 60 THEN i + 2
        ELSE LET gt == {j \in (i + 1)..(Len(s) - 1) : s[j + 1] = 62}
             IN IF gt = {} THEN -1
                ELSE (CHOOSE j \in gt : \A k \in gt : j <= k) + 1
    ELSE IF b \in NumberChars THEN RunEnd(s, i + 1, NumberChars)
    ELSE IF b = 40 THEN
        LET c == ClosingParen(s, i + 1, 1) IN IF c = -1 THEN -1 ELSE c + 1
    ELSE IF b = 41 THEN -1
    ELSE RunEnd(s, i + 1, (0..255) \ DelimiterBytes)

\* From offset i on, s is whitespace, or whitespace and then well-formed
\* lexemes each separated from the next by whitespace.
RECURSIVE WellFormedFrom(_, _)
WellFormedFrom(s, i) ==
    LET l == LeadPos(s, i) IN
    IF l = -1 THEN TRUE
    ELSE LET e == LexemeEnd(s, l)
         IN /\ e # -1
            /\ \/ e = Len(s)
               \/ s[e + 1] \in WhitespaceBytes /\ WellFormedFrom(s, e)

WellFormed(s) == WellFormedFrom(s, 0)

\* The bytes of s at the offsets of C, from offset i on, in order.
RECURSIVE KeepBytes(_, _, _)
KeepBytes(s, i, C) ==
    IF i >= Len(s) THEN <<>>
    ELSE (IF i \in C THEN <<s[i + 1]>> ELSE <<>>) \o KeepBytes(s, i + 1, C)

\* The texts of the tokens k.. of toks, concatenated.
RECURSIVE ConcatText(_, _)
ConcatText(toks, k) ==
    IF k > Len(toks) THEN <<>> ELSE toks[k].text \o ConcatText(toks, k + 1)

\* C8: on a source of well-formed lexemes separated by whitespace, the
\* tokens next_token() returns from offset 0 until EndOfStream have spans
\* [byte_offset, byte_offset + len(text)) that lie in the source, are disjoint
\* and increasing, leave only whitespace outside them, and whose texts
\* concatenated are the source with that whitespace removed.
C8_ScanReproducesContent ==
    (op = "next_token" /\ run.live /\ res.status = "none" /\ WellFormed(src)) =>
        LET toks == run.toks
            End(k) == toks[k].byte_offset + Len(toks[k].text)
            Covered == {i \in 0..(Len(src) - 1) :
                          \E k \in 1..Len(toks) : toks[k].byte_offset <= i /\ i < End(k)}
        IN /\ \A k \in 1..Len(toks) : toks[k].byte_offset >= 0 /\ End(k) <= Len(src)
           /\ \A k \in 1..(Len(toks) - 1) : End(k) <= toks[k + 1].byte_offset
           /\ \A i \in 0..(Len(src) - 1) : i \notin Covered => src[i + 1] \in WhitespaceBytes
           /\ ConcatText(toks, 1) = KeepBytes(src, 0, Covered)

\* C8 witness: a well-formed source with two lexemes and whitespace between
\* them has been scanned from offset 0 to EndOfStream.
C8_Witness ==
    /\ op = "next_token"
    /\ run.live
    /\ res.status = "none"
    /\ WellFormed(src)
    /\ Len(run.toks) = 2
    /\ Len(run.toks[1].text) > 0
    /\ Len(run.toks[2].text) > 0
    /\ Len(run.toks[1].text) + Len(run.toks[2].text) = Len(src) - 1

\* C9: when the lead byte is '>', next_token() returns EndDict with text
\* ">>" and the offset of the first '>' if the next byte is '>', and
\* otherwise (another byte, or none) fails on the assert of line 133, the
\* malformed dictionary close, and returns no token.
C9_EndDictOrFail ==
    LET l == LeadPos(src, start) IN
    (op = "next_token" /\ l # -1 /\ src[l + 1] = 62) =>
        IF l + 1 < Len(src) /\ src[l + 2] = 62
        THEN res = [status |-> "token", byte_offset |-> l,
                    token_type |-> "END_DICT", text |-> <<62, 62>>]
        ELSE res.status = "fail" /\ res.token_type = "assert_133"

\* C9 witness: a call failed on a '>' that another byte follows.
C9_Witness ==
    /\ op = "next_token"
    /\ res.status = "fail"
    /\ res.token_type = "assert_133"
    /\ LeadPos(src, start) + 1 < Len(src)

\* C10: when the lead byte is '(' and the source ends before the nesting
\* counter is back to 0, a last backslash with no byte after it included,
\* next_token() fails on the assert of line 203, the unterminated string,
\* and returns no String token.
C10_UnterminatedStringFails ==
    LET l == LeadPos(src, start) IN
    (op = "next_token" /\ l # -1 /\ src[l + 1] = 40 /\ ClosingParen(src, l + 1, 1) = -1)
    => (res.status = "fail" /\ res.token_type = "assert_203")

\* C10 witness: a call failed on a string that ends with a backslash whose
\* escaped byte is missing.
C10_Witness ==
    /\ op = "next_token"
    /\ res.status = "fail"
    /\ res.token_type = "assert_203"
    /\ Len(src) = LeadPos(src, start) + 2
    /\ src[Len(src)] = 92

\* C11: when the lead byte is '<', a second byte follows that is neither
\* '<' nor '>', and no '>' comes after it, next_token() does not fail: it
\* returns a HexString token whose text is every byte from the '<' to the end
\* of the source, and leaves the cursor at the end of the source.
C11_TruncatedHexString ==
    LET l == LeadPos(src, start) IN
    (/\ op = "next_token"
     /\ l # -1
     /\ src[l + 1] = 60
     /\ l + 1 < Len(src)
     /\ src[l + 2] \notin {60, 62}
     /\ \A j \in (l + 3)..Len(src) : src[j] # 62)
    => /\ res = [status |-> "token", byte_offset |-> l,
                 token_type |-> "HEX_STRING", text |-> SubSeq(src, l + 1, Len(src))]
       /\ tell(pos) = Len(src)

\* C11 witness: a truncated hex string of three bytes has been returned.
C11_Witness ==
    /\ op = "next_token"
    /\ res.status = "token"
    /\ res.token_type = "HEX_STRING"
    /\ Len(res.text) = 3
    /\ res.text[3] # 62
    /\ tell(pos) = Len(src)

\* C12: the byte_offset of every token next_token() returns is the offset
\* of the first byte at or after the call's position that is not whitespace,
\* and its text is the source bytes from byte_offset to byte_offset +
\* len(text), unchanged.
C12_OffsetAndTextAreTheLexeme ==
    (op = "next_token" /\ res.status = "token") =>
        /\ res.byte_offset = LeadPos(src, start)
        /\ res.byte_offset + Len(res.text) <= Len(src)
        /\ res.text = SubSeq(src, res.byte_offset + 1, res.byte_offset + Len(res.text))

\* C13: every next_token() call that returns a token leaves tell() strictly
\* greater than it was before the call.
C13_TokenMakesProgress ==
    (op = "next_token" /\ res.status = "token") => tell(pos) > start

\* C14: when the lead byte is '(' and a ')' brings the nesting counter back
\* to 0, next_token() returns a String token whose text runs from the '(' to
\* the first such ')', this ')' included and every byte in between verbatim,
\* and leaves the cursor just after it; a String token is returned in no
\* other case.  The counter starts at 1, a '(' adds 1, a ')' takes 1 off and
\* the byte after a backslash does neither.
C14_StringEndsAtMatchingParen ==
    LET l == LeadPos(src, start)
        c == IF l # -1 /\ src[l + 1] = 40 THEN ClosingParen(src, l + 1, 1) ELSE -1
    IN op = "next_token" =>
        /\ c # -1 =>
            /\ res = [status |-> "token", byte_offset |-> l,
                      token_type |-> "STRING", text |-> SubSeq(src, l + 1, c + 1)]
            /\ tell(pos) = c + 1
        /\ (res.status = "token" /\ res.token_type = "STRING") => c # -1

\* C14 witness: a String token that holds an escaped ')' has been
\* returned, and a byte after its closing ')' is left unread.
C14_Witness ==
    /\ op = "next_token"
    /\ res.status = "token"
    /\ res.token_type = "STRING"
    /\ \E i \in 1..(Len(res.text) - 2) : res.text[i] = 92 /\ res.text[i + 1] = 41
    /\ tell(pos) < Len(src)

\* C15: when the lead byte is '<' and a second byte follows it, that byte
\* decides the token: '<' gives StartDict "<<", '>' gives the HexString "<>",
\* and any other byte gives a HexString that starts with the '<' and that
\* byte and runs up to and including the first later '>' (to the end of the
\* source if there is none, the case of C11).  In all cases byte_offset is the
\* offset of the first '<' and the cursor is left just after the last byte of
\* text.
C15_SecondByteDecides ==
    LET l == LeadPos(src, start) IN
    (op = "next_token" /\ l # -1 /\ src[l + 1] = 60 /\ l + 1 < Len(src)) =>
        LET gt == {j \in (l + 3)..Len(src) : src[j] = 62}
            last == IF gt = {} THEN Len(src) ELSE CHOOSE j \in gt : \A k \in gt : j <= k
        IN /\ res.status = "token"
           /\ res.byte_offset = l
           /\ tell(pos) = l + Len(res.text)
           /\ src[l + 2] = 60 => res.token_type = "START_DICT" /\ res.text = <<60, 60>>
           /\ src[l + 2] = 62 => res.token_type = "HEX_STRING" /\ res.text = <<60, 62>>
           /\ src[l + 2] \notin {60, 62} =>
                 res.token_type = "HEX_STRING" /\ res.text = SubSeq(src, l + 1, last)

\* C15 witness: a closed HexString of three bytes has been returned.
C15_Witness ==
    /\ op = "next_token"
    /\ res.status = "token"
    /\ res.token_type = "HEX_STRING"
    /\ res.byte_offset = LeadPos(src, start)
    /\ Len(res.text) = 3
    /\ res.text[3] = 62

\* The bytes of "-+.0123456789".
NumberClass == {43, 45, 46, 48, 49, 50, 51, 52, 53, 54, 55, 56, 57}

\* C16: every byte of a Number token's text is in the class -+.0123456789
\* and the byte at tell() after the call, if any, is outside it; when the
\* lead byte is in the class the token is a Number whose text is the whole
\* run of class bytes from the lead byte on, whatever its shape ("--5",
\* "5.5."), and the cursor is left at the end of the run.
C16_NumberIsMaximalRun ==
    LET l == LeadPos(src, start) IN
    op = "next_token" =>
        /\ (res.status = "token" /\ res.token_type = "NUMBER") =>
              /\ \A i \in 1..Len(res.text) : res.text[i] \in NumberClass
              /\ tell(pos) < Len(src) => src[tell(pos) + 1] \notin NumberClass
        /\ (l # -1 /\ src[l + 1] \in NumberClass) =>
              LET e == RunEnd(src, l, NumberClass)
              IN /\ res = [status |-> "token", byte_offset |-> l,
                           token_type |-> "NUMBER", text |-> SubSeq(src, l + 1, e)]
                 /\ tell(pos) = e

\* C16 witness: the run "--5" has been returned as one Number token.
C16_Witness ==
    /\ op = "next_token"
    /\ res.status = "token"
    /\ res.token_type = "NUMBER"
    /\ res.text = <<45, 45, 53>>

\* C17: the text of a Name token after its '/' and the text of an Other
\* token are the run of non-delimiter bytes that starts there, which ends at
\* the first delimiter byte or at the end of the source; the cursor is left at
\* the end of the run, so a delimiter that ended it is the byte at tell().
C17_RunStopsBeforeDelimiter ==
    (op = "next_token" /\ res.status = "token" /\ res.token_type \in {"NAME", "OTHER"}) =>
        LET first == IF res.token_type = "NAME" THEN res.byte_offset + 1 ELSE res.byte_offset
            e == RunEnd(src, first, (0..255) \ DelimiterBytes)
        IN /\ res.byte_offset = LeadPos(src, start)
           /\ res.token_type = "NAME" => res.text[1] = 47
           /\ res.text = SubSeq(src, res.byte_offset + 1, e)
           /\ \A i \in (first + 1)..e : src[i] \notin DelimiterBytes
           /\ tell(pos) = e
           /\ e < Len(src) => src[tell(pos) + 1] \in DelimiterBytes

\* C17 witness: a Name token of two bytes has been returned with the
\* delimiter that ended it left unread.
C17_Witness ==
    /\ op = "next_token"
    /\ res.status = "token"
    /\ res.token_type = "NAME"
    /\ Len(res.text) = 2
    /\ tell(pos) < Len(src)
    /\ src[tell(pos) + 1] \in DelimiterBytes

\* C18: the text of a Comment token starts with '%', holds no '\r' or '\n'
\* and is the source from the '%' to the first '\r' or '\n' or to the end of
\* the source; tell() after the call is the offset of that terminator (or the
\* source length), and a next_token() call made from there reads past the
\* terminator as whitespace: it leaves tell() beyond it and returns no text
\* that starts at it.
C18_CommentStopsBeforeEol ==
    (op = "next_token" /\ res.status = "token" /\ res.token_type = "COMMENT") =>
        LET e == RunEnd(src, res.byte_offset, (0..255) \ {10, 13})
            o == next_token(src, pos)
        IN /\ res.byte_offset = LeadPos(src, start)
           /\ res.text[1] = 37
           /\ \A i \in 1..Len(res.text) : res.text[i] \notin {10, 13}
           /\ res.text = SubSeq(src, res.byte_offset + 1, e)
           /\ tell(pos) = e
           /\ e < Len(src) =>
                 /\ src[e + 1] \in {10, 13}
                 /\ src[e + 1] \in WhitespaceBytes
                 /\ o.pos > e
                 /\ (o.tok.status = "token" /\ Len(o.tok.text) > 0) => o.tok.byte_offset > e

\* C18 witness: a Comment token has been returned with its '\n' left unread
\* and a lexeme after it.
C18_Witness ==
    /\ op = "next_token"
    /\ res.status = "token"
    /\ res.token_type = "COMMENT"
    /\ tell(pos) + 1 < Len(src)
    /\ src[tell(pos) + 1] = 10
    /\ src[tell(pos) + 2] \notin WhitespaceBytes

\* The kinds the dispatch table of section 4.2 gives the lead byte b.
KindsOf(b) ==
    IF b = 91 THEN {"START_ARRAY"}
    ELSE IF b = 93 THEN {"END_ARRAY"}
    ELSE IF b = 47 THEN {"NAME"}
    ELSE IF b = 62 THEN {"END_DICT"}
    ELSE IF b = 37 THEN {"COMMENT"}
    ELSE IF b = 60 THEN {"START_DICT", "HEX_STRING"}
    ELSE IF b \in NumberClass THEN {"NUMBER"}
    ELSE IF b = 40 THEN {"STRING"}
    ELSE {"OTHER"}

\* C19: the kind of every token next_token() returns is the one the dispatch
\* table gives the byte at its byte_offset.
C19_KindFollowsLeadByte ==
    (op = "next_token" /\ res.status = "token") =>
        /\ res.byte_offset \in 0..(Len(src) - 1)
        /\ res.token_type \in KindsOf(src[res.byte_offset + 1])

\* C20: a failed next_token() call leaves the cursor where the scan stopped.
\* After the failure on a '>' that a byte other than '>' follows, tell() is
\* the offset of the '>' plus 2, past that byte; after the failure on an
\* unterminated string tell() is the source length, and a next_token() call
\* made from there returns EndOfStream (None) and leaves tell() there.
C20_FailureLeavesCursor ==
    LET l == LeadPos(src, start) IN
    (op = "next_token" /\ res.status = "fail") =>
        /\ (res.token_type = "assert_133" /\ l + 1 < Len(src)) => tell(pos) = l + 2
        /\ res.token_type = "assert_203" =>
              /\ tell(pos) = Len(src)
              /\ next_token(src, pos) = [tok |-> None, pos |-> Len(src)]

\* C20 witness: a call failed on a '>' that was followed by another byte, and
\* left the cursor past that byte.
C20_Witness ==
    /\ op = "next_token"
    /\ res.status = "fail"
    /\ res.token_type = "assert_133"
    /\ start < LeadPos(src, start)
    /\ tell(pos) = LeadPos(src, start) + 2

====
